---- MODULE Spec2Model ----
(***************************************************************************)
(* Marble run (src/src/main.rs): the two per-frame systems of the Bevy     *)
(* application, marble_control_system and camera_follow_system, the world  *)
(* setup_scene creates, and the frame schedule main registers them in.     *)
(*                                                                         *)
(* Numbers.  The source computes in f32 and so does the model.  A number *)
(* is a pair <<m, e>> standing for m * 2^e: <<0, 0>> is zero, and every    *)
(* other number has 2^23 <= |m| < 2^24, the 24 significant bits of f32.    *)
(* FAdd, FSub and FMul compute the exact result and round it to 24 bits,   *)
(* to the nearest, ties to the even mantissa, as the hardware does; Ratio  *)
(* is the f32 nearest to a fraction, as a literal or a division gives it.  *)
(* Exponent overflow, subnormals and the sign of zero do not arise for the *)
(* coordinates of the scene and are not modelled.  Time is counted in      *)
(* ticks of 1/60 s: the clock's delta for d ticks is the Duration of d / 60 *)
(* s to the nanosecond, and delta_seconds its as_secs_f32.                 *)
(*                                                                         *)
(* Physics.  The engine is configured by setup_scene: gravity (0, -9.81,   *)
(* 0), a variable timestep capped at max_dt = 1/60 s, one step a frame.    *)
(* The engine's solver, left at its defaults by main, divides the step h   *)
(* into num_solver_iterations substeps, each v' = v + gravity * h / n,     *)
(* x' = x + v' * h / n.  The model follows the marble while it falls free  *)
(* of the track (FreeFall), where that is all a step does and the rotation *)
(* stays (the angular velocity is zero).  Contact with the floor or the    *)
(* walls is outside the model: the marble starts 0.85 above the floor and  *)
(* the bounded runs end before it lands.                                   *)
(*                                                                         *)
(* Orientation.  Transform::look_at(target, Vec3::Y) builds the rotation   *)
(* from the unit vector of target - translation (computed in f32) and the  *)
(* fixed up vector, so the rotation is a function of that difference.  The *)
(* model keeps the difference, scaled by the power of two that brings its  *)
(* largest component into [1, 2): equal vectors give equal rotations, and  *)
(* two vectors give the same direction iff SameDirection.                  *)
(*                                                                         *)
(* Entities that carry neither marker component (floor, walls, light)      *)
(* match no query of the two systems and are left out of the world.        *)
(***************************************************************************)
EXTENDS Integers, Sequences, FiniteSets

VARIABLES
    world,  \* the entities
    keys,   \* ButtonInput<KeyCode>: the keys held
    dt,     \* Time: the delta of the current frame, in ticks of 1/60 s
    pc,     \* the schedule the frame loop is in
    steps,  \* the frames begun (SpecSystems: the calls of camera_follow_system)
    hist    \* the systems run in the current frame (SpecSystems: the last call),
            \* each with its inputs and the world it found

vars == <<world, keys, dt, pc, steps, hist>>

----------------------------------------------------------------------------
(* Bounds of the model. *)

\* delta times offered by the clock: 0..MaxDt ticks of 1/60 s
MaxDt == 7
\* lateral range of the marble positions drawn as inputs
MaxX == 3
\* entities per role in the worlds drawn as inputs
MaxMarbles == 2
MaxCameras == 2
MaxBoth == 1
\* frames of the application in a behaviour of Spec
MaxFrames == 2
\* calls of camera_follow_system in a behaviour of SpecSystems
MaxCalls == 1
\* frames of smoothing in a behaviour of SpecSmoothing
MaxSmoothing == 3

----------------------------------------------------------------------------
(* f32 *)

RECURSIVE Pow(_, _)
Pow(b, n) == IF n = 0 THEN 1 ELSE b * Pow(b, n - 1)

\* the powers of two up to 2^30
P2 == [k \in 0 .. 30 |-> Pow(2, k)]

Abs(n) == IF n < 0 THEN -n ELSE n

\* the number of binary digits of n >= 0
RECURSIVE Bits(_)
Bits(n) == IF n = 0 THEN 0 ELSE 1 + Bits(n \div 2)

\* 0.0
F0 == <<0, 0>>

\* the f32 nearest to sgn * (M + f) * 2^E, ties to even, for an integer
\* 0 <= M < 2^31 and a fraction 0 <= f < 1 that is not 0 iff sticky (then
\* M >= 2^25)
Round(sgn, M, sticky, E) ==
    IF M = 0 THEN F0
    ELSE LET n == Bits(M) - 24
         IN  IF n <= 0 THEN <<sgn * M * P2[-n], E + n>>
             ELSE LET q == M \div P2[n]
                      r == M % P2[n]
                      half == P2[n - 1]
                      up == r > half \/ (r = half /\ (sticky \/ q % 2 = 1))
                      m == IF up THEN q + 1 ELSE q
                  IN  IF m = P2[24] THEN <<sgn * P2[23], E + n + 1>>
                      ELSE <<sgn * m, E + n>>

\* a + b in f32
FAdd(a, b) ==
    IF a[1] = 0 THEN b
    ELSE IF b[1] = 0 THEN a
    ELSE LET hi == IF a[2] >= b[2] THEN a ELSE b
             lo == IF a[2] >= b[2] THEN b ELSE a
             d == hi[2] - lo[2]
         IN  IF d >= 26 THEN hi
             ELSE LET k == IF d > 6 THEN d - 6 ELSE 0
                      sticky == lo[1] % P2[k] # 0
                      T == hi[1] * P2[d - k] + (lo[1] \div P2[k])
                      E == lo[2] + k
                  IN  IF T >= 0 THEN Round(1, T, sticky, E)
                      ELSE Round(-1, IF sticky THEN -T - 1 ELSE -T, sticky, E)

FNeg(a) == <<-a[1], a[2]>>

\* a - b in f32
FSub(a, b) == FAdd(a, FNeg(b))

\* the exact product of two mantissas below 2^24 as <<H, r>>, H * 2^24 + r
Product(ma, mb) ==
    LET B == P2[12]
        ah == ma \div B
        al == ma % B
        bh == mb \div B
        bl == mb % B
        mid == ah * bl + al * bh
        t == (mid % B) * B + al * bl
    IN  <<ah * bh + mid \div B + t \div P2[24], t % P2[24]>>

\* a * b in f32
FMul(a, b) ==
    IF a[1] = 0 \/ b[1] = 0 THEN F0
    ELSE LET p == Product(Abs(a[1]), Abs(b[1]))
             sgn == IF (a[1] < 0) = (b[1] < 0) THEN 1 ELSE -1
         IN  Round(sgn, p[1] * P2[6] + p[2] \div P2[18], p[2] % P2[18] # 0,
                   a[2] + b[2] + 18)

\* a < b
FLess(a, b) == FSub(a, b)[1] < 0

\* |a|
FAbs(a) == <<Abs(a[1]), a[2]>>

\* the integer n as f32 (|n| < 2^31)
U(n) == Round(IF n < 0 THEN -1 ELSE 1, Abs(n), FALSE, 0)

\* the quotient n / d of integers n >= 0, 0 < d < 2^24 to 26 binary digits:
\* <<q, r, k>> with n * 2^k = q * d + r
RECURSIVE Divide(_, _, _, _)
Divide(q, r, k, d) ==
    IF q >= P2[25] THEN <<q, r, k>>
    ELSE Divide(2 * q + (2 * r) \div d, (2 * r) % d, k + 1, d)

\* a / b in f32, for b # 0
FDiv(a, b) ==
    IF a[1] = 0 THEN F0
    ELSE LET n == Abs(a[1])
             d == Abs(b[1])
             c == Divide(n \div d, n % d, 0, d)
             sgn == IF (a[1] < 0) = (b[1] < 0) THEN 1 ELSE -1
         IN  Round(sgn, c[1], c[2] # 0, a[2] - b[2] - c[3])

\* the f32 literal n / d, for integers n and d # 0
Ratio(n, d) == FDiv(U(n), U(d))

----------------------------------------------------------------------------
(* Vec3 *)

Vec(a, b, c) == [x |-> a, y |-> b, z |-> c]

\* Vec3::new(a, b, c) for whole numbers a, b, c
Point(a, b, c) == Vec(U(a), U(b), U(c))

VSub(a, b) == Vec(FSub(a.x, b.x), FSub(a.y, b.y), FSub(a.z, b.z))

VAdd(a, b) == Vec(FAdd(a.x, b.x), FAdd(a.y, b.y), FAdd(a.z, b.z))

\* v * s
VScale(v, s) == Vec(FMul(v.x, s), FMul(v.y, s), FMul(v.z, s))

Zero == Vec(F0, F0, F0)

\* Dir3::NEG_Z, the direction a Transform faces before any look_at
NegZ == Point(0, 0, -1)

\* a with its exponent lowered by e
Scaled(a, e) == IF a[1] = 0 THEN a ELSE <<a[1], a[2] - e>>

\* v scaled by the power of two that brings its largest component into
\* [1, 2); Dir3::NEG_Z when v has no direction
Normalize(v) ==
    IF v = Zero THEN NegZ
    ELSE LET e == CHOOSE e \in {c[2] : c \in {v.x, v.y, v.z} \ {F0}} :
                      \A c \in {v.x, v.y, v.z} \ {F0} : c[2] <= e
         IN  Vec(Scaled(v.x, e + 23), Scaled(v.y, e + 23), Scaled(v.z, e + 23))

\* Transform::look_at(target, Vec3::Y): the direction it faces
LookAt(translation, target) == Normalize(VSub(target, translation))

----------------------------------------------------------------------------
(* The world: a sequence of entities.  marble / camera are the marker      *)
(* components Marble / FollowCamera, hasVelocity says whether the entity   *)
(* carries a Velocity component (the rigid body of the marble does),       *)
(* translation and forward are its Transform.                              *)

Entity(m, c, v, t, f, l) ==
    [marble |-> m, camera |-> c, hasVelocity |-> v,
     translation |-> t, forward |-> f, linvel |-> l]

\* the velocity Vec3::new(a, b, c) for whole numbers a, b, c
Vel(a, b, c) == Point(a, b, c)

\* setup_scene's marble: at (0, 2, -8), pushed forward with (0, 0, 2)
SceneMarble == Entity(TRUE, FALSE, TRUE, Point(0, 2, -8), NegZ, Vel(0, 0, 2))

\* setup_scene's camera: at (0, 6, -18), looking at (0, 0, 5)
SceneCamera ==
    Entity(FALSE, TRUE, FALSE, Point(0, 6, -18),
           LookAt(Point(0, 6, -18), Point(0, 0, 5)), Zero)

\* the world after the Startup schedule
setup_scene == <<SceneMarble, SceneCamera>>

\* the keys the controller reads
Keys == {"ArrowLeft", "ArrowRight"}

----------------------------------------------------------------------------
(* Queries *)

\* Query<&mut Velocity, With<Marble>>
MarbleVelocityQuery(w) == {i \in DOMAIN w : w[i].marble /\ w[i].hasVelocity}

\* Query<&mut Transform, (With<FollowCamera>, Without<Marble>)>
CameraQuery(w) == {i \in DOMAIN w : w[i].camera /\ ~w[i].marble}

\* Query<&Transform, (With<Marble>, Without<FollowCamera>)>
MarbleTransformQuery(w) == {i \in DOMAIN w : w[i].marble /\ ~w[i].camera}

\* a bug: take the first match when several entities match
GetSingleFirst(q) == q # {}

\* get_single / get_single_mut: Ok exactly when one entity matches
GetSingleOk(q) == Cardinality(q) = 1

\* the entity an Ok get_single returns
Single(q) == CHOOSE i \in q : \A j \in q : i <= j

----------------------------------------------------------------------------
(* marble_control_system *)

control_force == 5

\* a bug: the right key adds the force as the left key does
LateralForceSameSign(pressed) ==
    LET left == IF "ArrowLeft" \in pressed THEN FAdd(F0, U(control_force)) ELSE F0
    IN  IF "ArrowRight" \in pressed THEN FAdd(left, U(control_force)) ELSE left

\* lateral_force after the two key checks: 0.0, += control_force, -= control_force
LateralForce(pressed) ==
    LET left == IF "ArrowLeft" \in pressed THEN FAdd(F0, U(control_force)) ELSE F0
    IN  IF "ArrowRight" \in pressed THEN FSub(left, U(control_force)) ELSE left

\* a bug: the lateral force is added to the velocity instead of replacing it
marble_control_accumulate(w, pressed) ==
    IF GetSingleOk(MarbleVelocityQuery(w))
    THEN LET i == Single(MarbleVelocityQuery(w))
         IN  [w EXCEPT ![i].linvel.x = FAdd(@, LateralForce(pressed))]
    ELSE w

marble_control_system(w, pressed) ==
    IF GetSingleOk(MarbleVelocityQuery(w))
    THEN LET i == Single(MarbleVelocityQuery(w))
         IN  [w EXCEPT ![i].linvel.x = LateralForce(pressed)]
    ELSE w

----------------------------------------------------------------------------
(* camera_follow_system *)

camera_offset == Point(0, 5, -9)

\* target_camera_pos for a marble at translation m
TargetCameraPos(m) == VAdd(m, camera_offset)

lerp_speed == 10

\* the Duration of a frame of d ticks, in nanoseconds: d / 60 s to the nearest
Nanos(d) == d * 16666666 + (2 * d + 1) \div 3

\* Duration::as_secs_f32: secs as f32 + nanos as f32 / 1e9
AsSecsF32(n) == FAdd(U(n \div 1000000000), FDiv(U(n % 1000000000), U(1000000000)))

\* time.delta_seconds() of a frame of d ticks
DeltaSeconds(d) == AsSecsF32(Nanos(d))

\* lerp_speed * time.delta_seconds()
Factor(d) == FMul(U(lerp_speed), DeltaSeconds(d))

\* a bug: the difference is taken the wrong way round
LerpAway(self, rhs, s) == VSub(self, VScale(VSub(rhs, self), s))

\* Vec3::lerp(self, rhs, s) == self + (rhs - self) * s; s is not clamped
Lerp(self, rhs, s) == VAdd(self, VScale(VSub(rhs, self), s))

\* look_target for a camera at translation c
LookTarget(c) == Vec(c.x, FSub(c.y, U(2)), FAdd(c.z, U(10)))

\* a bug: the camera turns to face the marble
camera_follow_face_marble(w, d) ==
    IF GetSingleOk(CameraQuery(w)) /\ GetSingleOk(MarbleTransformQuery(w))
    THEN LET c == Single(CameraQuery(w))
             m == Single(MarbleTransformQuery(w))
             new_pos == Lerp(w[c].translation, TargetCameraPos(w[m].translation),
                             Factor(d))
         IN  [w EXCEPT ![c].translation = new_pos,
                       ![c].forward = LookAt(new_pos,
                           Vec(w[m].translation.x, FSub(new_pos.y, U(2)),
                               FAdd(new_pos.z, U(10))))]
    ELSE w

\* a bug: a missing marble is taken to sit at the origin
camera_follow_default_marble(w, d) ==
    IF GetSingleOk(CameraQuery(w))
    THEN LET c == Single(CameraQuery(w))
             mt == IF GetSingleOk(MarbleTransformQuery(w))
                   THEN w[Single(MarbleTransformQuery(w))].translation
                   ELSE Zero
             new_pos == Lerp(w[c].translation, TargetCameraPos(mt), Factor(d))
         IN  [w EXCEPT ![c].translation = new_pos,
                       ![c].forward = LookAt(new_pos, LookTarget(new_pos))]
    ELSE w

\* a bug: the target leads the marble by a tick of its lateral velocity
camera_follow_lead(w, d) ==
    IF GetSingleOk(CameraQuery(w)) /\ GetSingleOk(MarbleTransformQuery(w))
    THEN LET c == Single(CameraQuery(w))
             m == Single(MarbleTransformQuery(w))
             lead == Vec(FAdd(w[m].translation.x, FMul(w[m].linvel.x, Ratio(1, 60))),
                         w[m].translation.y, w[m].translation.z)
             new_pos == Lerp(w[c].translation, TargetCameraPos(lead), Factor(d))
         IN  [w EXCEPT ![c].translation = new_pos,
                       ![c].forward = LookAt(new_pos, LookTarget(new_pos))]
    ELSE w

camera_follow_system(w, d) ==
    IF GetSingleOk(CameraQuery(w)) /\ GetSingleOk(MarbleTransformQuery(w))
    THEN LET c == Single(CameraQuery(w))
             m == Single(MarbleTransformQuery(w))
             new_pos == Lerp(w[c].translation, TargetCameraPos(w[m].translation),
                             Factor(d))
         IN  [w EXCEPT ![c].translation = new_pos,
                       ![c].forward = LookAt(new_pos, LookTarget(new_pos))]
    ELSE w

----------------------------------------------------------------------------
(* The application: App::new() ... .run().  Every frame runs the schedules *)
(* First and PreUpdate (the clock and the input are sampled), then Update  *)
(* with camera_follow_system and marble_control_system, registered as a    *)
(* tuple with no order between them, then PostUpdate, where                *)
(* RapierPhysicsPlugin::default() steps the simulation and writes the      *)
(* bodies' transforms and velocities back.                                 *)

DeltaTicks == 0 .. MaxDt

Ran(name) == \E i \in DOMAIN hist : hist[i].sys = name

Call(name) == [sys |-> name, keys |-> keys', dt |-> dt', before |-> world]

\* the delta times of the application's frames: none (the first frame), one tick
\* (60 frames per second), the tick count that makes the factor 1, and the longest
FrameDeltas == {0, 1, 6, MaxDt}

\* RapierConfiguration::gravity: Vec3::new(0.0, -9.81, 0.0)
gravity == Vec(F0, FNeg(Ratio(981, 100)), F0)

\* TimestepMode::Variable { max_dt: 1.0 / 60.0, time_scale: 1.0, substeps: 1 }:
\* the longest step
max_dt == Ratio(1, 60)

\* IntegrationParameters::default(), which RapierPhysicsPlugin::default() keeps:
\* the solver substeps a step is divided into
num_solver_iterations == 4

\* the step the engine takes in a frame of d ticks: the delta, capped
StepSeconds(d) ==
    IF FLess(DeltaSeconds(d), max_dt) THEN DeltaSeconds(d) ELSE max_dt

\* the marble is clear of the track: the floor (0.3 thick, sloped 5 degrees)
\* lies below y = 1 where z > -9, the walls stand at |x| > 4, the ball's radius
\* is 0.3
FreeFall(e) ==
    /\ FLess(Ratio(3, 2), e.translation.y)
    /\ FLess(FAbs(e.translation.x), U(3))
    /\ FLess(U(-9), e.translation.z)

\* one solver substep of length h on a rigid body in free fall: the velocity
\* takes up gravity for the substep, the position moves with the new velocity
\* for the substep
Substep(e, h) ==
    LET v == VAdd(e.linvel, VScale(gravity, h))
    IN  [e EXCEPT !.linvel = v,
                  !.translation = VAdd(@, VScale(v, h))]

RECURSIVE Substeps(_, _, _)
Substeps(e, h, n) == IF n = 0 THEN e ELSE Substeps(Substep(e, h), h, n - 1)

\* a rigid body in free fall after a step of length h, taken in
\* num_solver_iterations substeps of equal length
Integrate(e, h) ==
    Substeps(e, FMul(h, Ratio(1, num_solver_iterations)), num_solver_iterations)

Init ==
    /\ world = setup_scene
    /\ keys = {}
    /\ dt = 0
    /\ pc = "First"
    /\ steps = 0
    /\ hist = <<>>

\* First, PreUpdate: a new frame begins, the clock and the keyboard are sampled
BeginFrame ==
    /\ pc = "First"
    /\ steps < MaxFrames
    /\ steps' = steps + 1
    /\ \E d \in FrameDeltas : dt' = d
    /\ \E k \in SUBSET Keys : keys' = k
    /\ pc' = "Update"
    /\ hist' = <<>>
    /\ UNCHANGED world

\* Update: camera_follow_system runs
RunCameraFollow ==
    /\ pc = "Update"
    /\ ~Ran("camera_follow_system")
    /\ world' = camera_follow_system(world, dt)
    /\ UNCHANGED <<keys, dt, pc, steps>>
    /\ hist' = Append(hist, Call("camera_follow_system"))

\* Update: marble_control_system runs
RunMarbleControl ==
    /\ pc = "Update"
    /\ ~Ran("marble_control_system")
    /\ world' = marble_control_system(world, keys)
    /\ UNCHANGED <<keys, dt, pc, steps>>
    /\ hist' = Append(hist, Call("marble_control_system"))

\* PostUpdate: the physics step moves the rigid body, with the velocity
\* marble_control_system has written, and writes it back
PhysicsStep ==
    /\ pc = "Update"
    /\ Ran("camera_follow_system") /\ Ran("marble_control_system")
    /\ \A i \in DOMAIN world : world[i].hasVelocity => FreeFall(world[i])
    /\ world' = [i \in DOMAIN world |->
                   IF world[i].hasVelocity
                   THEN Integrate(world[i], StepSeconds(dt))
                   ELSE world[i]]
    /\ UNCHANGED <<keys, dt, steps>>
    /\ hist' = Append(hist, Call("physics_step"))
    /\ pc' = "First"

Next == BeginFrame \/ RunCameraFollow \/ RunMarbleControl \/ PhysicsStep

Spec == Init /\ [][Next]_vars

----------------------------------------------------------------------------
(* The two systems as functions of the world: they are applied, in any     *)
(* order, to worlds drawn from bounded sets, with any keys held and any    *)
(* delta time.                                                             *)

Rep(e, n) == [i \in 1 .. n |-> e]

InputMarbles ==
    {Entity(TRUE, FALSE, TRUE, Point(mx, 2, -8), NegZ, v) :
        mx \in -MaxX .. MaxX, v \in {Vel(0, 0, 2), Vel(-3, -4, 7)}}

InputCameras ==
    {Entity(FALSE, TRUE, FALSE, Point(0, 6, -18), SceneCamera.forward, Zero),
     Entity(FALSE, TRUE, FALSE, Point(0, 7, -17),
            LookAt(Point(0, 7, -17), Point(0, 5, -7)), Zero),
     Entity(FALSE, TRUE, FALSE, Point(6, 13, -23),
            LookAt(Point(6, 13, -23), Point(7, 13, -22)), Zero)}

\* an entity carrying both markers, the Transform and the Velocity of m
Both(m) == [m EXCEPT !.camera = TRUE]

InputWorlds ==
    {Rep(m, nm) \o Rep(c, nc) \o Rep(Both(m), nb) :
        m \in InputMarbles, c \in InputCameras,
        nm \in 0 .. MaxMarbles, nc \in 0 .. MaxCameras, nb \in 0 .. MaxBoth}

InitSystems ==
    /\ world \in InputWorlds
    /\ keys = {}
    /\ dt = 0
    /\ pc = "Systems"
    /\ steps = 0
    /\ hist = <<>>

CallMarbleControl ==
    /\ pc = "Systems"
    /\ \E k \in SUBSET Keys :
         /\ keys' = k
         /\ world' = marble_control_system(world, k)
    /\ UNCHANGED <<dt, pc, steps>>
    /\ hist' = <<Call("marble_control_system")>>

CallCameraFollow ==
    /\ pc = "Systems"
    /\ steps < MaxCalls
    /\ steps' = steps + 1
    /\ \E d \in DeltaTicks :
         /\ dt' = d
         /\ world' = camera_follow_system(world, d)
    /\ UNCHANGED <<keys, pc>>
    /\ hist' = <<Call("camera_follow_system")>>

NextSystems == CallMarbleControl \/ CallCameraFollow

SpecSystems == InitSystems /\ [][NextSystems]_vars

----------------------------------------------------------------------------
(* Smoothing: camera_follow_system applied frame after frame to a world    *)
(* with one camera and one marble that stays where it is, every frame with *)
(* a factor strictly between 0 and 1.                                      *)

\* the f32 next below a > 0 that is no power of two
Below(a) == <<a[1] - 1, a[2]>>

\* a camera one unit in the last place below the target of a marble at
\* (0, 2, -8)
NearCamera ==
    Entity(FALSE, TRUE, FALSE, Vec(F0, Below(U(7)), U(-17)),
           LookAt(Point(0, 7, -17), Point(0, 5, -7)), Zero)

SmoothingWorlds ==
    {<<Entity(TRUE, FALSE, TRUE, Point(mx, 2, -8), NegZ, Vel(0, 0, 2)), c>> :
        mx \in -MaxX .. MaxX, c \in InputCameras \cup {NearCamera}}

\* the delta times with 0 < lerp_speed * delta_time < 1
SmoothTicks == {d \in DeltaTicks : FLess(F0, Factor(d)) /\ FLess(Factor(d), U(1))}

InitSmoothing ==
    /\ world \in SmoothingWorlds
    /\ keys = {}
    /\ dt = 0
    /\ pc = "Smoothing"
    /\ steps = 0
    /\ hist = <<>>

SmoothingFrame ==
    /\ pc = "Smoothing"
    /\ steps < MaxSmoothing
    /\ steps' = steps + 1
    /\ \E d \in SmoothTicks :
         /\ dt' = d
         /\ world' = camera_follow_system(world, d)
    /\ UNCHANGED <<keys, pc>>
    /\ hist' = Append(hist, Call("camera_follow_system"))

NextSmoothing == SmoothingFrame

SpecSmoothing == InitSmoothing /\ [][NextSmoothing]_vars

----------------------------------------------------------------------------
(* Helpers of the properties *)

\* the last system run
Last == hist[Len(hist)]

LastWas(name) == hist # <<>> /\ Last.sys = name

\* exactly one entity matches the camera query of camera_follow_system and
\* exactly one its marble query
Follows(w) ==
    Cardinality(CameraQuery(w)) = 1 /\ Cardinality(MarbleTransformQuery(w)) = 1

Cam(w) == w[Single(CameraQuery(w))]

Target(w) == TargetCameraPos(w[Single(MarbleTransformQuery(w))].translation)

\* a <= b
FLe(a, b) == ~FLess(b, a)

\* n lies between o and t, the ends included
Between(o, n, t) == (FLe(o, n) /\ FLe(n, t)) \/ (FLe(t, n) /\ FLe(n, o))

\* every coordinate of new lies between that of old and that of t: new is no
\* farther from t than old is, and it is nearer iff new # old
Toward(old, new, t) ==
    /\ Between(old.x, new.x, t.x)
    /\ Between(old.y, new.y, t.y)
    /\ Between(old.z, new.z, t.z)

\* every coordinate of old lies between that of new and that of t: new is no
\* nearer to t than old is, and it is farther iff new # old
Away(old, new, t) == Toward(new, old, t)

\* the world before and after the i-th call of a behaviour of SpecSmoothing
Before(i) == hist[i].before

After(i) == IF i < Len(hist) THEN hist[i + 1].before ELSE world

\* one unit in the last place of a # 0
Ulp(a) == <<P2[23], a[2] - 23>>

\* the increment s * (t - c) of the coordinate c amounts to a unit in the last
\* place of c or more
CarriesAxis(c, t, s) ==
    LET p == FMul(FSub(t, c), s)
    IN  p # F0 /\ (c = F0 \/ FLe(Ulp(c), FAbs(p)))

\* a frame of d ticks carries the camera of w at least a unit in the last place
\* along some axis
Carries(w, d) ==
    /\ Follows(w)
    /\ LET c == Cam(w).translation
           t == Target(w)
       IN  \/ CarriesAxis(c.x, t.x, Factor(d))
           \/ CarriesAxis(c.y, t.y, Factor(d))
           \/ CarriesAxis(c.z, t.z, Factor(d))

\* the exact product a * b, in a form equal for equal products
Exactly(a, b) ==
    IF a[1] = 0 \/ b[1] = 0 THEN <<0, 0, 0, 0>>
    ELSE LET p == Product(Abs(a[1]), Abs(b[1]))
             sgn == IF (a[1] < 0) = (b[1] < 0) THEN 1 ELSE -1
         IN  IF p[1] >= P2[23] THEN <<sgn, p[1], p[2], a[2] + b[2]>>
             ELSE <<sgn, 2 * p[1] + p[2] \div P2[23], 2 * (p[2] % P2[23]),
                    a[2] + b[2] - 1>>

Sign(a) == IF a[1] > 0 THEN 1 ELSE IF a[1] < 0 THEN -1 ELSE 0

\* a and b point the same way: their cross product is zero and the signs of
\* their components agree
SameDirection(a, b) ==
    /\ Exactly(a.y, b.z) = Exactly(a.z, b.y)
    /\ Exactly(a.z, b.x) = Exactly(a.x, b.z)
    /\ Exactly(a.x, b.y) = Exactly(a.y, b.x)
    /\ Sign(a.x) = Sign(b.x) /\ Sign(a.y) = Sign(b.y) /\ Sign(a.z) = Sign(b.z)

\* w with the marble camera_follow_system reads moved to lateral coordinate px
SetMarbleX(w, px) ==
    [i \in DOMAIN w |->
        IF i \in MarbleTransformQuery(w)
        THEN [w[i] EXCEPT !.translation.x = px]
        ELSE w[i]]

\* lateral coordinates to compare runs at
LateralInputs == {U(n) : n \in -(MaxX + 1) .. MaxX + 1}

----------------------------------------------------------------------------
(* Properties *)

\* C1: one run of marble_control_system on a world with exactly one marble leaves
\* the marble's velocity (L, vy, vz), L being +5 with only ArrowLeft held, -5 with
\* only ArrowRight held and 0 with both or neither, and leaves all else as it was.
C1_LateralOverwrite ==
    (LastWas("marble_control_system") /\ Cardinality(MarbleVelocityQuery(Last.before)) = 1) =>
        LET b == Last.before
            i == Single(MarbleVelocityQuery(b))
            L == IF Last.keys = {"ArrowLeft"} THEN U(5)
                 ELSE IF Last.keys = {"ArrowRight"} THEN U(-5)
                 ELSE F0
        IN  world = [b EXCEPT ![i].linvel = Vec(L, b[i].linvel.y, b[i].linvel.z)]

\* C1 witness: with only ArrowRight held, a marble moving at (-3, -4, 7) now
\* moves at (-5, -4, 7).
C1_Witness ==
    /\ LastWas("marble_control_system")
    /\ Last.keys = {"ArrowRight"}
    /\ Cardinality(MarbleVelocityQuery(Last.before)) = 1
    /\ Last.before[Single(MarbleVelocityQuery(Last.before))].linvel = Vel(-3, -4, 7)
    /\ world[Single(MarbleVelocityQuery(world))].linvel = Vel(-5, -4, 7)

\* C2 (as claimed): after a run of camera_follow_system with
\* lerp_speed * delta_time >= 1 the camera is exactly at its target.
C2_ClampedAtTarget ==
    (LastWas("camera_follow_system") /\ Follows(Last.before)
        /\ FLe(U(1), Factor(Last.dt))) =>
        Cam(world).translation = Target(Last.before)

\* C3 (as claimed): in every frame camera_follow_system runs after the physics
\* step of that frame.
C3_CameraAfterPhysics ==
    \A i \in DOMAIN hist :
        hist[i].sys = "camera_follow_system" =>
            \E j \in 1 .. i - 1 : hist[j].sys = "physics_step"

\* C4 (as claimed): in every reachable state the camera looks along one fixed
\* direction, the one it has in the state setup_scene creates: forward, slightly
\* downward, with no lateral component.
C4_LookDirectionFixed ==
    \A i \in DOMAIN world :
        world[i].camera =>
            /\ SameDirection(world[i].forward, SceneCamera.forward)
            /\ Sign(world[i].forward.x) = 0
            /\ Sign(world[i].forward.y) < 0
            /\ Sign(world[i].forward.z) > 0

\* C5: the orientation camera_follow_system leaves does not depend on the marble's
\* lateral coordinate: the run from the same world with the marble at any other x
\* ends with the same orientation of every entity, and with the same camera
\* height and depth.
C5_OrientationIgnoresMarbleX ==
    LastWas("camera_follow_system") =>
        \A px \in LateralInputs :
            LET r == camera_follow_system(SetMarbleX(Last.before, px), Last.dt)
            IN  \A i \in DOMAIN world :
                    /\ r[i].forward = world[i].forward
                    /\ r[i].translation.y = world[i].translation.y
                    /\ r[i].translation.z = world[i].translation.z

\* C5 witness: a run that moved the camera sideways, and would have moved it
\* elsewhere had the marble been at another x.
C5_Witness ==
    /\ LastWas("camera_follow_system")
    /\ Follows(Last.before)
    /\ Cam(world).translation.x # Cam(Last.before).translation.x
    /\ \E px \in LateralInputs :
         Cam(camera_follow_system(SetMarbleX(Last.before, px), Last.dt)).translation.x
             # Cam(world).translation.x

\* C6: when no entity is a marble, a run of either system changes nothing.
C6_NoMarbleNoChange ==
    (hist # <<>> /\ \A i \in DOMAIN Last.before : ~Last.before[i].marble) =>
        world = Last.before

\* C6 witness: camera_follow_system has run, with time passing, on a world that
\* holds one camera and no marble.
C6_Witness ==
    /\ LastWas("camera_follow_system")
    /\ Last.dt > 0
    /\ Cardinality(CameraQuery(Last.before)) = 1
    /\ \A i \in DOMAIN Last.before : ~Last.before[i].marble

\* C7: camera_follow_system changes the world only when exactly one entity
\* matches the camera query and exactly one the marble query; it never changes
\* a marble.
C7_FollowNeedsSingles ==
    LastWas("camera_follow_system") =>
        /\ DOMAIN world = DOMAIN Last.before
        /\ ~Follows(Last.before) => world = Last.before
        /\ \A i \in DOMAIN world : Last.before[i].marble => world[i] = Last.before[i]

\* C7 witness: camera_follow_system has run, with time passing, on a world with
\* one camera away from where the first of two marbles would draw it.
C7_Witness ==
    /\ LastWas("camera_follow_system")
    /\ Last.dt > 0
    /\ Cardinality(CameraQuery(Last.before)) = 1
    /\ Cardinality(MarbleTransformQuery(Last.before)) = 2
    /\ Cam(Last.before).translation
         # TargetCameraPos(Last.before[Single(MarbleTransformQuery(Last.before))].translation)

\* C8 (as claimed): every smoothing step with 0 < lerp_speed * delta_time < 1
\* leaves the camera no farther from its target, and nearer unless the camera was
\* at the target already; over a sequence of such frames the distance never grows.
\* (The distances are compared through the coordinates: the claim excludes a step
\* that leaves no coordinate nearer to the target and the camera off the target,
\* and one that takes the camera off the target.)
C8_SmoothingApproaches ==
    pc = "Smoothing" =>
        \A i \in DOMAIN hist :
            LET t == Target(Before(i))
                old == Cam(Before(i)).translation
                new == Cam(After(i)).translation
                first == Cam(Before(1)).translation
            IN  /\ old # t => ~Away(old, new, t)
                /\ old = t => new = t
                /\ ~(Away(first, new, t) /\ new # first)

\* C8 (amended): every smoothing step with 0 < lerp_speed * delta_time < 1 leaves
\* every coordinate of the camera between where it was and the target's, so the
\* camera is no farther from its target, and nearer whenever the step moves it;
\* the step moves it whenever the factor times the offset from the target is a
\* unit in the last place of the coordinate or more on some axis; over a sequence
\* of such frames with the marble at rest the distance never grows.
C8_SmoothingNeverRecedes ==
    pc = "Smoothing" =>
        \A i \in DOMAIN hist :
            LET t == Target(Before(i))
                old == Cam(Before(i)).translation
                new == Cam(After(i)).translation
            IN  /\ FLess(F0, Factor(hist[i].dt)) /\ FLess(Factor(hist[i].dt), U(1))
                /\ Target(After(i)) = t
                /\ Toward(old, new, t)
                /\ Carries(Before(i), hist[i].dt) => new # old
                /\ Toward(Cam(Before(1)).translation, new, t)

\* C8 witness: a sequence of frames of which two, one after the other, each
\* brought the camera nearer to its target without reaching it.
C8_Witness ==
    /\ pc = "Smoothing"
    /\ \E i \in DOMAIN hist :
         /\ i < Len(hist)
         /\ \A j \in {i, i + 1} :
              /\ Toward(Cam(Before(j)).translation, Cam(After(j)).translation,
                        Target(Before(j)))
              /\ Cam(After(j)).translation # Cam(Before(j)).translation
              /\ Cam(After(j)).translation # Target(Before(j))

\* C9 (as claimed): running the system that has just run once more, with the same
\* keys or the same marble position and delta time, changes nothing.
C9_Idempotent ==
    /\ LastWas("marble_control_system") =>
         marble_control_system(world, Last.keys) = world
    /\ LastWas("camera_follow_system") =>
         camera_follow_system(world, Last.dt) = world

\* C9 (amended): a second run of marble_control_system changes nothing; a second
\* run of camera_follow_system changes nothing when the delta time is 0, when the
\* system is a no-op or when the first run left the camera at its target, and it
\* moves the camera again when the factor times the offset the first run left is
\* a unit in the last place of the coordinate or more on some axis.
C9_IdempotentAtRest ==
    /\ LastWas("marble_control_system") =>
         marble_control_system(world, Last.keys) = world
    /\ LastWas("camera_follow_system") =>
         LET r == camera_follow_system(world, Last.dt)
         IN  /\ (~Follows(world) \/ Last.dt = 0
                   \/ Cam(world).translation = Target(world)) => r = world
             /\ Carries(world, Last.dt) =>
                   Cam(r).translation # Cam(world).translation

\* C9 witness: a run with factor 1 brought the camera from elsewhere to its target.
C9_Witness ==
    /\ LastWas("camera_follow_system")
    /\ Follows(Last.before)
    /\ Factor(Last.dt) = U(1)
    /\ Cam(Last.before).translation # Target(Last.before)
    /\ Cam(world).translation = Target(world)

\* C10: the two systems of Update commute: once both have run in a frame the
\* world is what either order makes of the world the frame began with, and from
\* every state reached both orders of the two systems give the same world.
C10_OrderIrrelevant ==
    /\ (pc = "Update" /\ Ran("camera_follow_system") /\ Ran("marble_control_system")) =>
         LET s == hist[1].before
         IN  /\ world = marble_control_system(camera_follow_system(s, dt), keys)
             /\ world = camera_follow_system(marble_control_system(s, keys), dt)
    /\ \A k \in SUBSET Keys : \A d \in FrameDeltas :
         marble_control_system(camera_follow_system(world, d), k)
             = camera_follow_system(marble_control_system(world, k), d)

\* C10 witness: a frame in which marble_control_system ran first and changed the
\* marble's velocity, and camera_follow_system ran after it and moved the camera.
C10_Witness ==
    /\ pc = "Update"
    /\ Len(hist) = 2
    /\ hist[1].sys = "marble_control_system"
    /\ hist[2].sys = "camera_follow_system"
    /\ hist[2].before # hist[1].before
    /\ world # hist[2].before

====
